---------------------------- MODULE Spec2Model ----------------------------
(***************************************************************************)
(* A model of the Fractional value type of fractional.py: the constructor  *)
(* with its normalization, the eight arithmetic methods, the comparisons,  *)
(* the hash and the two renderings, driven by a client that builds values  *)
(* from literals and chains the results of operations.                     *)
(*                                                                         *)
(* Python integers are unbounded, so no operation wraps; the model bounds  *)
(* the literals a client writes and the size of a result it goes on using. *)
(***************************************************************************)
EXTENDS Integers, Sequences, FiniteSets

VARIABLES
    self,   \* <<>> or <<f>>: the receiver of the last operation
    other,  \* the other operand of the last operation
    op,     \* the last operation: "start", "init", "add", "radd", ...
    args,   \* <<>> or <<x, y, normalize_original>>: the last constructor call
    res     \* the outcome of the last operation

vars == <<self, other, op, args, res>>

---------------------------------------------------------------------------
(* Bounds *)

\* Magnitude of the integers a client writes: constructor arguments and
\* integer operands.
MaxLit == 2

\* Magnitude of the components of a result the client goes on computing with.
MaxVal == MaxLit + 1

Lits == (-MaxLit)..MaxLit

Abs(n) == IF n < 0 THEN -n ELSE n

---------------------------------------------------------------------------
(* Outcomes and operands *)

\* A call returns a new instance, raises, or returns NotImplemented.
Value(f) == [outcome |-> "value", val |-> <<f>>]
Raise(e) == [outcome |-> e, val |-> <<>>]
NotImplemented == [outcome |-> "NotImplemented", val |-> <<>>]
NoResult == [outcome |-> "none", val |-> <<>>]

\* The operand kinds isinstance tells apart.
IntOp(k) == [kind |-> "int", n |-> k, f |-> <<>>]
FracOp(f) == [kind |-> "Fractional", n |-> 0, f |-> <<f>>]
UnsupportedOp == [kind |-> "unsupported", n |-> 0, f |-> <<>>]
NoOperand == [kind |-> "none", n |-> 0, f |-> <<>>]

---------------------------------------------------------------------------
(* Construction *)

\* math.gcd: the greatest common divisor of |a| and |b|, gcd(0, 0) = 0.
RECURSIVE Euclid(_, _)
Euclid(a, b) == IF b = 0 THEN a ELSE Euclid(b, a % b)

math_gcd(a, b) == Euclid(Abs(a), Abs(b))

\* _find_gcd with the division dropped: a plausible slip.
_find_gcd_unreduced(x, y) == <<x, y>>

_find_gcd(x, y) ==
    LET gcd == math_gcd(x, y)
    IN  <<x \div gcd, y \div gcd>>

\* The constructor with the zero check dropped.
Fractional_nocheck(x, y, normalize_original) ==
    LET sx == IF y < 0 THEN -x ELSE x
        sy == IF y < 0 THEN -y ELSE y
    IN  Value([x |-> sx, y |-> sy, normalize_original |-> normalize_original,
               original_x |-> sx, original_y |-> sy])

\* The constructor reducing the display pair whatever the flag.
Fractional_alwaysnorm(x, y, normalize_original) ==
    IF y = 0 THEN Raise("ValueError")
    ELSE LET sx == IF y < 0 THEN -x ELSE x
             sy == IF y < 0 THEN -y ELSE y
             norm == _find_gcd(sx, sy)
         IN  Value([x |-> norm[1], y |-> norm[2],
                    normalize_original |-> normalize_original,
                    original_x |-> norm[1], original_y |-> norm[2]])

\* Fractional(x, y, normalize_original): the generated __init__ then
\* __post_init__.
Fractional(x, y, normalize_original) ==
    IF y = 0 THEN Raise("ValueError")
    ELSE LET sx == IF y < 0 THEN -x ELSE x
             sy == IF y < 0 THEN -y ELSE y
             norm == _find_gcd(sx, sy)
             orig == IF normalize_original THEN norm ELSE <<sx, sy>>
         IN  Value([x |-> norm[1], y |-> norm[2],
                    normalize_original |-> normalize_original,
                    original_x |-> orig[1], original_y |-> orig[2]])

---------------------------------------------------------------------------
(* Arithmetic *)

__add__(s, o) ==
    IF o.kind = "Fractional"
    THEN LET t == o.f[1]
         IN  Fractional(s.x * t.y + t.x * s.y, s.y * t.y, TRUE)
    ELSE IF o.kind = "int"
    THEN Fractional(s.x + o.n * s.y, s.y, TRUE)
    ELSE NotImplemented

__radd__(s, o) == __add__(s, o)

__sub__(s, o) ==
    IF o.kind = "Fractional"
    THEN LET t == o.f[1]
         IN  Fractional(s.x * t.y - t.x * s.y, s.y * t.y, TRUE)
    ELSE IF o.kind = "int"
    THEN Fractional(s.x - o.n * s.y, s.y, TRUE)
    ELSE NotImplemented

\* __rsub__ delegating to __sub__, as __radd__ does to __add__.
__rsub__swapped(s, o) ==
    IF o.kind = "int"
    THEN Fractional(s.x - o.n * s.y, s.y, FALSE)
    ELSE NotImplemented

\* __rsub__ computing from the receiver's display pair.
__rsub__display(s, o) ==
    IF o.kind = "int"
    THEN Fractional(o.n * s.original_y - s.original_x, s.original_y, FALSE)
    ELSE NotImplemented

__rsub__(s, o) ==
    IF o.kind = "int"
    THEN Fractional(o.n * s.y - s.x, s.y, FALSE)
    ELSE NotImplemented

__mul__(s, o) ==
    IF o.kind = "Fractional"
    THEN LET t == o.f[1]
         IN  Fractional(s.x * t.x, s.y * t.y, TRUE)
    ELSE IF o.kind = "int"
    THEN Fractional(s.x * o.n, s.y, TRUE)
    ELSE NotImplemented

__rmul__(s, o) == __mul__(s, o)

\* __truediv__ with the zero checks dropped.
__truediv__nocheck(s, o) ==
    IF o.kind = "Fractional"
    THEN LET t == o.f[1]
         IN  Fractional(s.x * t.y, s.y * t.x, TRUE)
    ELSE IF o.kind = "int"
    THEN Fractional(s.x, s.y * o.n, TRUE)
    ELSE NotImplemented

__truediv__(s, o) ==
    IF o.kind = "Fractional"
    THEN LET t == o.f[1]
         IN  IF t.x = 0 THEN Raise("ZeroDivisionError")
             ELSE Fractional(s.x * t.y, s.y * t.x, TRUE)
    ELSE IF o.kind = "int"
    THEN IF o.n = 0 THEN Raise("ZeroDivisionError")
         ELSE Fractional(s.x, s.y * o.n, TRUE)
    ELSE NotImplemented

\* __rtruediv__ asking for a reduced display pair, like the forward methods.
__rtruediv__normalized(s, o) ==
    IF o.kind = "int"
    THEN IF s.x = 0 THEN Raise("ZeroDivisionError")
         ELSE Fractional(o.n * s.y, s.x, TRUE)
    ELSE NotImplemented

__rtruediv__(s, o) ==
    IF o.kind = "int"
    THEN IF s.x = 0 THEN Raise("ZeroDivisionError")
         ELSE Fractional(o.n * s.y, s.x, FALSE)
    ELSE NotImplemented

---------------------------------------------------------------------------
(* Comparison *)

\* __eq__ against an integer without the denominator check.
__eq__numerator(s, o) ==
    IF o.kind = "Fractional"
    THEN LET t == o.f[1] IN Value(s.x = t.x /\ s.y = t.y)
    ELSE IF o.kind = "int"
    THEN Value(s.x = o.n)
    ELSE NotImplemented

\* The equality dataclass would generate: every field compared.
__eq__fields(s, o) ==
    IF o.kind = "Fractional"
    THEN Value(s = o.f[1])
    ELSE IF o.kind = "int"
    THEN Value(s.x = o.n /\ s.y = 1)
    ELSE NotImplemented

__eq__(s, o) ==
    IF o.kind = "Fractional"
    THEN LET t == o.f[1] IN Value(s.x = t.x /\ s.y = t.y)
    ELSE IF o.kind = "int"
    THEN Value(s.x = o.n /\ s.y = 1)
    ELSE NotImplemented

__lt__(s, o) ==
    IF o.kind = "Fractional"
    THEN LET t == o.f[1] IN Value(s.x * t.y < t.x * s.y)
    ELSE IF o.kind = "int"
    THEN Value(s.x < o.n * s.y)
    ELSE NotImplemented

__le__(s, o) ==
    IF o.kind = "Fractional"
    THEN LET t == o.f[1] IN Value(s.x * t.y <= t.x * s.y)
    ELSE IF o.kind = "int"
    THEN Value(s.x <= o.n * s.y)
    ELSE NotImplemented

__gt__(s, o) ==
    IF o.kind = "Fractional"
    THEN LET t == o.f[1] IN Value(s.x * t.y > t.x * s.y)
    ELSE IF o.kind = "int"
    THEN Value(s.x > o.n * s.y)
    ELSE NotImplemented

__ge__(s, o) ==
    IF o.kind = "Fractional"
    THEN LET t == o.f[1] IN Value(s.x * t.y >= t.x * s.y)
    ELSE IF o.kind = "int"
    THEN Value(s.x >= o.n * s.y)
    ELSE NotImplemented

---------------------------------------------------------------------------
(* Hashing *)

\* hash(n) of a Python int of magnitude below 2^61 - 1: n itself, except
\* that -1 is reserved and hashes as -2.  A hash is modelled as the tuple
\* of the integer hashes it is computed from: <<h>> for an int.
hash_int(n) == <<IF n = -1 THEN -2 ELSE n>>

\* hash((a, b)) of a pair of ints: a function of the hashes of its items,
\* modelled as the pair of them.  Equal modelled hashes are equal hashes.
hash_pair(a, b) == hash_int(a) \o hash_int(b)

\* __hash__ without the integer case.
__hash__pair(s) == hash_pair(s.x, s.y)

__hash__(s) ==
    IF s.y = 1 THEN hash_int(s.x)
    ELSE hash_pair(s.x, s.y)

---------------------------------------------------------------------------
(* Rendering *)

Digit(d) ==
    CASE d = 0 -> "0" [] d = 1 -> "1" [] d = 2 -> "2" [] d = 3 -> "3"
      [] d = 4 -> "4" [] d = 5 -> "5" [] d = 6 -> "6" [] d = 7 -> "7"
      [] d = 8 -> "8" [] d = 9 -> "9"

RECURSIVE Decimal(_)
Decimal(n) == IF n < 10 THEN Digit(n) ELSE Decimal(n \div 10) \o Digit(n % 10)

\* An int formatted in an f-string.
format_int(n) == IF n < 0 THEN "-" \o Decimal(-n) ELSE Decimal(n)

__repr__(s) == "Fractional(" \o format_int(s.x) \o ", " \o format_int(s.y) \o ")"

\* __str__ rendering the canonical pair.
__str__canonical(s) == format_int(s.x) \o "/" \o format_int(s.y)

__str__(s) == format_int(s.original_x) \o "/" \o format_int(s.original_y)

---------------------------------------------------------------------------
(* Dispatch *)

ArithOps == {"add", "radd", "sub", "rsub", "mul", "rmul", "truediv", "rtruediv"}
ForwardOps == {"add", "sub", "mul", "truediv"}
CompareOps == {"eq", "lt", "le", "gt", "ge"}

\* The method an operation name stands for.
Apply(name, s, o) ==
    CASE name = "add" -> __add__(s, o)
      [] name = "radd" -> __radd__(s, o)
      [] name = "sub" -> __sub__(s, o)
      [] name = "rsub" -> __rsub__(s, o)
      [] name = "mul" -> __mul__(s, o)
      [] name = "rmul" -> __rmul__(s, o)
      [] name = "truediv" -> __truediv__(s, o)
      [] name = "rtruediv" -> __rtruediv__(s, o)
      [] name = "eq" -> __eq__(s, o)
      [] name = "lt" -> __lt__(s, o)
      [] name = "le" -> __le__(s, o)
      [] name = "gt" -> __gt__(s, o)
      [] name = "ge" -> __ge__(s, o)

---------------------------------------------------------------------------
(* The client *)

\* A result the client goes on computing with.
Usable(r) ==
    /\ op \in ArithOps \cup {"init"}
    /\ r.outcome = "value"
    /\ Abs(r.val[1].original_x) <= MaxVal
    /\ r.val[1].original_y <= MaxVal

\* The receiver of the next operation: the last result, or the receiver
\* of the last operation when that one gave no usable value.
Receivers ==
    IF Usable(res) THEN {res.val[1]}
    ELSE IF self # <<>> THEN {self[1]}
    ELSE {}

\* The values a client writes as literals.
LitValues ==
    {Fractional(n, d, z).val[1] :
        n \in Lits, d \in Lits \ {0}, z \in BOOLEAN}

\* What the right of a forward operator can be.
ForwardOperands(s) ==
    {IntOp(k) : k \in Lits}
        \cup {FracOp(f) : f \in LitValues \cup {s}}
        \cup {UnsupportedOp}

\* What the left of a reflected operator can be: a Fractional on the left
\* is served by its own forward method.
ReflectedOperands == {IntOp(k) : k \in Lits} \cup {UnsupportedOp}

Init ==
    /\ self = <<>>
    /\ other = NoOperand
    /\ op = "start"
    /\ args = <<>>
    /\ res = NoResult

Construct(x, y, z) ==
    /\ op' = "init"
    /\ args' = <<x, y, z>>
    /\ res' = Fractional(x, y, z)
    /\ self' = <<>>
    /\ other' = NoOperand

Operate(name, s, o) ==
    /\ op' = name
    /\ self' = <<s>>
    /\ other' = o
    /\ res' = Apply(name, s, o)
    /\ args' = <<>>

Add == \E s \in Receivers : \E o \in ForwardOperands(s) : Operate("add", s, o)
Radd == \E s \in Receivers : \E o \in ReflectedOperands : Operate("radd", s, o)
Sub == \E s \in Receivers : \E o \in ForwardOperands(s) : Operate("sub", s, o)
Rsub == \E s \in Receivers : \E o \in ReflectedOperands : Operate("rsub", s, o)
Mul == \E s \in Receivers : \E o \in ForwardOperands(s) : Operate("mul", s, o)
Rmul == \E s \in Receivers : \E o \in ReflectedOperands : Operate("rmul", s, o)
Truediv ==
    \E s \in Receivers : \E o \in ForwardOperands(s) : Operate("truediv", s, o)
Rtruediv ==
    \E s \in Receivers : \E o \in ReflectedOperands : Operate("rtruediv", s, o)

Eq == \E s \in Receivers : \E o \in ForwardOperands(s) : Operate("eq", s, o)
Lt == \E s \in Receivers : \E o \in ForwardOperands(s) : Operate("lt", s, o)
Le == \E s \in Receivers : \E o \in ForwardOperands(s) : Operate("le", s, o)
Gt == \E s \in Receivers : \E o \in ForwardOperands(s) : Operate("gt", s, o)
Ge == \E s \in Receivers : \E o \in ForwardOperands(s) : Operate("ge", s, o)

Inspect(name, s, v) ==
    /\ op' = name
    /\ self' = <<s>>
    /\ other' = NoOperand
    /\ res' = Value(v)
    /\ args' = <<>>

Hash == \E s \in Receivers : Inspect("hash", s, __hash__(s))
Str == \E s \in Receivers : Inspect("str", s, __str__(s))
Repr == \E s \in Receivers : Inspect("repr", s, __repr__(s))

Next ==
    \/ \E x \in Lits, y \in Lits, z \in BOOLEAN : Construct(x, y, z)
    \/ Add
    \/ Radd
    \/ Sub
    \/ Rsub
    \/ Mul
    \/ Rmul
    \/ Truediv
    \/ Rtruediv
    \/ Eq
    \/ Lt
    \/ Le
    \/ Gt
    \/ Ge
    \/ Hash
    \/ Str
    \/ Repr

Spec == Init /\ [][Next]_vars

---------------------------------------------------------------------------
(* Vocabulary of the properties *)

S == self[1]
T == other.f[1]
R == res.val[1]

Returned == op \in ArithOps \cup {"init"} /\ res.outcome = "value"
Supported == other.kind \in {"int", "Fractional"}

\* p and q > 0 have no common divisor above 1 (so p = 0 forces q = 1).
Coprime(p, q) == \A k \in 2..q : ~(p % k = 0 /\ q % k = 0)

Canonical(f) == f.y > 0 /\ Coprime(f.x, f.y) /\ (f.x = 0 => f.y = 1)

Reduced(f) == f.original_x = f.x /\ f.original_y = f.y

\* The integer n as the value n/1.
Unit(n) == Fractional(n, 1, FALSE).val[1]

\* An operand as a pair: the canonical pair of a value, (n, 1) of an int.
PairOf(o) == IF o.kind = "int" THEN <<o.n, 1>> ELSE <<o.f[1].x, o.f[1].y>>

Reflected(name) == name \in {"radd", "rsub", "rmul", "rtruediv"}

Base(name) ==
    CASE name = "radd" -> "add" [] name = "rsub" -> "sub"
      [] name = "rmul" -> "mul" [] name = "rtruediv" -> "truediv"
      [] OTHER -> name

\* The left and right operand of the expression the last operation served.
Left == IF Reflected(op) THEN PairOf(other) ELSE <<S.x, S.y>>
Right == IF Reflected(op) THEN <<S.x, S.y>> ELSE PairOf(other)

\* The textbook numerator and denominator of a op b.
Textbook(name, a, b) ==
    CASE name = "add" -> <<a[1] * b[2] + b[1] * a[2], a[2] * b[2]>>
      [] name = "sub" -> <<a[1] * b[2] - b[1] * a[2], a[2] * b[2]>>
      [] name = "mul" -> <<a[1] * b[1], a[2] * b[2]>>
      [] name = "truediv" -> <<a[1] * b[2], a[2] * b[1]>>

\* f is the reduced, sign-normalized form of the pair pr.
ReducedFormOf(f, pr) == Canonical(f) /\ f.x * pr[2] = pr[1] * f.y

SameCanonical(r1, r2) ==
    /\ r1.outcome = r2.outcome
    /\ r1.outcome = "value" =>
        r1.val[1].x = r2.val[1].x /\ r1.val[1].y = r2.val[1].y

Relation(name, l, r) ==
    CASE name = "eq" -> l = r [] name = "lt" -> l < r [] name = "le" -> l <= r
      [] name = "gt" -> l > r [] name = "ge" -> l >= r

\* The values of the same canonical pair as f, under every display pair up
\* to MaxVal times the canonical one and either flag.
Variants(f) ==
    {Fractional(k * f.x, k * f.y, z).val[1] : k \in 1..MaxVal, z \in BOOLEAN}

\* Every value a client can write with components up to MaxVal.
Universe ==
    {Fractional(n, d, z).val[1] :
        n \in (-MaxVal)..MaxVal, d \in ((-MaxVal)..MaxVal) \ {0}, z \in BOOLEAN}

---------------------------------------------------------------------------
(* C1: every value that exists -- a receiver, an operand, the result of a  *)
(* construction or of an arithmetic operation in any chain -- has a        *)
(* canonical pair with y > 0 and gcd(|x|, y) = 1, and zero is (0, 1).      *)
C1_CanonicalAlways ==
    /\ self # <<>> => Canonical(S)
    /\ other.kind = "Fractional" => Canonical(T)
    /\ Returned => Canonical(R)

\* A product that is zero over a denominator above 1 came out as (0, 1).
C1_Witness ==
    /\ op = "mul" /\ res.outcome = "value"
    /\ S.y > 1 /\ other = IntOp(0)
    /\ R.x = 0 /\ R.y = 1

(* C2: the canonical pair of a+b, a-b, a*b and a/b (b not zero) is the     *)
(* reduced, sign-normalized form of the textbook pair, and an integer      *)
(* operand n on either side gives the canonical pair that the value n/1    *)
(* gives in its place.                                                     *)
C2_Arithmetic ==
    op \in ArithOps /\ Supported /\ (Reflected(op) => other.kind = "int") =>
        /\ ~(Base(op) = "truediv" /\ Right[1] = 0) =>
            /\ res.outcome = "value"
            /\ ReducedFormOf(R, Textbook(Base(op), Left, Right))
        /\ other.kind = "int" =>
            IF Reflected(op)
            THEN SameCanonical(res, Apply(Base(op), Unit(other.n), FracOp(S)))
            ELSE SameCanonical(res, Apply(op, S, FracOp(Unit(other.n))))

\* A division by a negative value whose textbook pair had to be reduced.
C2_Witness ==
    /\ op = "truediv" /\ other.kind = "Fractional" /\ T.x < 0
    /\ res.outcome = "value"
    /\ R.y # Abs(S.y * T.x)

(* C3: each of ==, <, <=, >, >= returns the same relation between          *)
(* a.x*b.y and b.x*a.y on the canonical pairs; a == n holds iff a.x = n    *)
(* and a.y = 1; and the order relations against n are those against n/1.   *)
C3_Comparison ==
    op \in CompareOps /\ Supported =>
        /\ res = Value(Relation(op, S.x * PairOf(other)[2], PairOf(other)[1] * S.y))
        /\ other.kind = "int" =>
            /\ op = "eq" => (R <=> (S.x = other.n /\ S.y = 1))
            /\ res = Apply(op, S, FracOp(Unit(other.n)))

\* Two values that differ in their display pair compared equal.
C3_Witness ==
    /\ op = "eq" /\ other.kind = "Fractional"
    /\ S # T
    /\ res = Value(TRUE)

(* C4: a == b implies hash(a) = hash(b), and a == n for an integer n       *)
(* implies hash(a) = hash(n): a value of canonical denominator 1 hashes as *)
(* its numerator, any other as the pair (numerator, denominator).          *)
C4_HashCoherent ==
    /\ op = "hash" =>
        R = (IF S.y = 1 THEN hash_int(S.x) ELSE hash_pair(S.x, S.y))
    /\ self # <<>> /\ other.kind = "Fractional" /\ __eq__(S, other).val[1] =>
        __hash__(S) = __hash__(T)
    /\ self # <<>> /\ other.kind = "int" /\ __eq__(S, other).val[1] =>
        __hash__(S) = hash_int(other.n)

\* A value displayed over a denominator above 1 compared equal to an integer.
C4_Witness ==
    /\ op = "eq" /\ other.kind = "int"
    /\ S.original_y > 1
    /\ res = Value(TRUE)
    /\ __hash__(S) = hash_int(other.n)

(* C5: a division whose divisor has numerator zero -- value / zero value,  *)
(* value / 0, n / zero value for every n -- raises ZeroDivisionError and   *)
(* returns nothing; no division raises ValueError; and a division by a     *)
(* divisor that is not zero returns a value.                               *)
C5_DivisionByZero ==
    op \in {"truediv", "rtruediv"} /\ Supported
            /\ (op = "rtruediv" => other.kind = "int") =>
        /\ Right[1] = 0 => res = Raise("ZeroDivisionError")
        /\ Right[1] # 0 => res.outcome = "value"
        /\ res.outcome # "ValueError"

\* 0 / (a zero value) raised ZeroDivisionError.
C5_Witness ==
    /\ op = "rtruediv" /\ other = IntOp(0)
    /\ S.x = 0
    /\ res = Raise("ZeroDivisionError")

(* C6: construction with denominator 0 raises ValueError for every         *)
(* numerator and flag and yields no instance, construction with any other  *)
(* denominator succeeds, and no arithmetic operation raises ValueError.    *)
C6_ZeroDenominator ==
    /\ op = "init" =>
        /\ args[2] = 0 => res = Raise("ValueError")
        /\ args[2] # 0 => res.outcome = "value"
    /\ op \in ArithOps => res.outcome # "ValueError"

\* Fractional(n, 0, True) with n not zero raised ValueError.
C6_Witness ==
    /\ op = "init"
    /\ args[1] # 0 /\ args[2] = 0 /\ args[3] = TRUE
    /\ res = Raise("ValueError")

(* C7: a constructed value has a display denominator > 0; without the flag *)
(* its display pair is the input with the sign moved to the numerator and  *)
(* no reduction, with the flag it is the canonical pair; str renders the   *)
(* display pair as "n/d" and repr the canonical pair.                      *)
C7_DisplayPair ==
    /\ op = "init" /\ res.outcome = "value" =>
        /\ R.original_y > 0
        /\ ~args[3] =>
            <<R.original_x, R.original_y>> =
                (IF args[2] > 0 THEN <<args[1], args[2]>>
                 ELSE <<-args[1], -args[2]>>)
        /\ args[3] => Reduced(R)
    /\ op = "str" =>
        /\ R = format_int(S.original_x) \o "/" \o format_int(S.original_y)
        /\ <<S.original_x, S.original_y>> = <<-2, 1>> => R = "-2/1"
        /\ <<S.original_x, S.original_y>> = <<0, 2>> => R = "0/2"
    /\ op = "repr" =>
        /\ R = "Fractional(" \o format_int(S.x) \o ", " \o format_int(S.y) \o ")"
        /\ <<S.x, S.y>> = <<-2, 1>> => R = "Fractional(-2, 1)"
        /\ <<S.x, S.y>> = <<0, 1>> => R = "Fractional(0, 1)"

\* A zero written over 2 without the flag displays as "0/2".
C7_Witness ==
    /\ op = "str"
    /\ ~S.normalize_original
    /\ <<S.x, S.y>> = <<0, 1>>
    /\ R = "0/2"

(* C8: the result of every forward operation and of n + v and n * v has a  *)
(* display pair equal to its canonical pair, whatever the operands         *)
(* display; n - (x/y) displays (n*y - x, y) and n / (x/y) displays the     *)
(* sign-normalized (n*y, x), neither reduced.                              *)
C8_DisplayRule ==
    op \in ArithOps /\ res.outcome = "value" =>
        /\ op \in ForwardOps \cup {"radd", "rmul"} => Reduced(R)
        /\ op = "rsub" =>
            <<R.original_x, R.original_y>> = <<other.n * S.y - S.x, S.y>>
        /\ op = "rtruediv" =>
            <<R.original_x, R.original_y>> =
                (IF S.x > 0 THEN <<other.n * S.y, S.x>>
                 ELSE <<-(other.n * S.y), -S.x>>)

\* A sum of two values that both display unreduced displays reduced.
C8_Witness ==
    /\ op = "add" /\ other.kind = "Fractional"
    /\ ~Reduced(S) /\ ~Reduced(T)
    /\ res.outcome = "value" /\ Reduced(R)

C10_Same ==
    self # <<>> /\ other.kind # "none" =>
        /\ \A a \in Variants(S) :
            /\ __eq__(S, FracOp(a)) = Value(TRUE)
            /\ __hash__(S) = __hash__(a)
            /\ __repr__(S) = __repr__(a)
            /\ \A name \in ArithOps \cup CompareOps :
                Apply(name, a, other) = Apply(name, S, other)
        /\ other.kind = "Fractional" =>
            \A b \in Variants(T) : \A name \in ArithOps \cup CompareOps :
                Apply(name, S, FracOp(b)) = Apply(name, S, other)

C10_Frame ==
    op' \notin {"start", "init"} => self' # <<>> /\ self'[1] \in Receivers

C10_DisplayNoninterference == []C10_Same /\ [][C10_Frame]_vars

\* A receiver displayed unreduced, without the flag, multiplied by an integer.
C10_Witness ==
    /\ op = "mul" /\ other.kind = "int"
    /\ ~S.normalize_original /\ ~Reduced(S)
    /\ res.outcome = "value"

=============================================================================
